---- MODULE Spec2Model ----
(***************************************************************************)
(* PemaList: an uploaded registrant spreadsheet is turned into tablet      *)
(* lists, a donor roster and a participant roster (src/app.py).            *)
(*                                                                         *)
(* Texts are Chinese in the source; TLA+ strings are ASCII, so every       *)
(* source literal is written in pinyin:                                    *)
(*   xingming = 姓名, xingdong_dianhua = 行動電話, qifu_paiwei = 祈福牌位, *)
(*   chaojian_paiwei = 超薦牌位, chaodu_paiwei = 超渡牌位,                 *)
(*   gongdezhu = 功德主, canzan = 參贊, suixi = (隨喜),                    *)
(*   canjia_xiangmu = 參加項目, canyu_kecheng = 參與課程,                  *)
(*   guanlizhe_zhuji = 管理者註記事項, xiangci = 項次,                     *)
(*   xianchang_shangke = 現場上課, daochang_canjia = 到場參加,             *)
(*   xiaozai_paiwei = 消災牌位 (file name of the blessing tablet list),    *)
(*   canjiazhe_mingdan = 全程參加者名單.                                   *)
(* A string is a sequence of characters.  A header or a cell of the        *)
(* request model is a sequence of such words, each word standing for the   *)
(* characters it is written with, so that "contains as a substring" is     *)
(* decided by comparing subsequences, as Python's `in` does.               *)
(***************************************************************************)
EXTENDS Integers, Sequences, FiniteSets, TLC

VARIABLES
    pc,                  \* position of the operation under way: "idle" | "done"
    text,                \* estimate_line_count: argument text
    max_chars_per_line,  \* estimate_line_count: argument max_chars_per_line
    estimated_lines,     \* estimate_line_count: returned value
    columns,             \* find_matching_column: df.columns
    keywords,            \* find_matching_column: argument keywords
    matched,             \* find_matching_column: returned value
    valid_rows,          \* create_content_file: valid_rows['content']
    row_idx,             \* create_content_file: rows consumed by the for loop
    current_line,        \* create_content_file: current_line
    doc,                 \* create_content_file: the document's body
    req,                 \* process_excel: the request (form and uploaded file)
    response,            \* process_excel: the response returned
    raised,              \* process_excel: the step whose exception ended or marked it
    output_files,        \* Config.OUTPUT_DIR: file name -> what was written
    clock,               \* datetime.now(), in whole seconds
    served               \* number of requests handled so far

vars == <<pc, text, max_chars_per_line, estimated_lines, columns, keywords, matched,
          valid_rows, row_idx, current_line, doc,
          req, response, raised, output_files, clock, served>>

-----------------------------------------------------------------------------
(* Config (src/app.py:16-63) *)

LINES_PER_PAGE == 30
START_LINE == 20
MAX_CHARS_PER_LINE == 200

-----------------------------------------------------------------------------
(* Bounds *)

MaxTextLen == 24      \* longest text given to estimate_line_count
MaxLineWidth == 6     \* largest max_chars_per_line given to estimate_line_count
MaxHeaders == 2       \* most columns given to find_matching_column
MaxKeywords == 2      \* most aliases given to find_matching_column
MaxRows == 3          \* most rows given to the paginator
MaxRecords == 2       \* most records of an upload
MaxRequests == 2      \* most requests served one after another
MaxClock == 1         \* last second of the clock
MaxAttendance == 3    \* most records of an upload made for the roster

-----------------------------------------------------------------------------
(* Python values *)

\* None, and a value that is not None
None == [some |-> FALSE]
Some(v) == [some |-> TRUE, val |-> v]

\* the empty output directory, and an empty dict
EmptyDir == [f \in {} |-> 0]

\* A text known by its character count: estimate_line_count reads a text only
\* through its truth value and len()
NoText == [none |-> TRUE, len |-> 0]
Text(n) == [none |-> FALSE, len |-> n]

\* `not text`: None and "" are both falsy
Falsy(t) == t.none \/ t.len = 0

\* str.lower(), character by character
LowerChar(c) ==
    CASE c = "A" -> "a"
      [] c = "B" -> "b"
      [] OTHER -> c

Lower(s) == [i \in DOMAIN s |-> LowerChar(s[i])]

\* `sub in s` for strings
Contains(sub, s) ==
    \E k \in 0..(Len(s) - Len(sub)) : SubSeq(s, k + 1, k + Len(sub)) = sub

\* isinstance(keywords, str), and how the two kinds of argument are told apart
Str(s) == [str |-> s]
List(l) == [list |-> l]
IsStr(k) == "str" \in DOMAIN k

\* All sequences over S of length at most n
RECURSIVE SeqsUpTo(_, _)
SeqsUpTo(S, n) ==
    IF n = 0 THEN {<<>>}
    ELSE LET shorter == SeqsUpTo(S, n - 1)
         IN shorter \cup {Append(s, x) : s \in {t \in shorter : Len(t) = n - 1}, x \in S}

-----------------------------------------------------------------------------
(* estimate_line_count (src/app.py:132-136) *)

\* the division rounded down
EstimateFloor(t, max) ==
    IF Falsy(t) THEN 1 ELSE t.len \div max

\* return -(-len(text) // max_chars_per_line); // rounds towards minus infinity,
\* as \div does
estimate_line_count(t, max) ==
    IF Falsy(t) THEN 1 ELSE -((-(t.len)) \div max)

-----------------------------------------------------------------------------
(* find_matching_column (src/app.py:79-94) *)

\* keywords = [k.lower() for k in keywords], after a str is wrapped in a list
NormalizeKeywords(k) ==
    LET l == IF IsStr(k) THEN <<k.str>> ELSE k.list
    IN [i \in DOMAIN l |-> Lower(l[i])]

\* any(keyword in col_lower for keyword in keywords)
AnyKeywordIn(kws, col) ==
    \E i \in DOMAIN kws : Contains(kws[i], Lower(col))

\* for col in df.columns: ... return col, from column i on
RECURSIVE ScanColumns(_, _, _)
ScanColumns(cols, kws, i) ==
    IF i > Len(cols) THEN None
    ELSE IF AnyKeywordIn(kws, cols[i]) THEN Some(cols[i])
    ELSE ScanColumns(cols, kws, i + 1)

\* the loops nested the other way round: the first alias that matches decides
RECURSIVE ScanKeywords(_, _, _)
ScanKeywords(cols, kws, j) ==
    IF j > Len(kws) THEN None
    ELSE LET hit == ScanColumns(cols, <<kws[j]>>, 1)
         IN IF hit.some THEN hit ELSE ScanKeywords(cols, kws, j + 1)

FindByAliasOrder(cols, k) == ScanKeywords(cols, NormalizeKeywords(k), 1)

find_matching_column(cols, k) == ScanColumns(cols, NormalizeKeywords(k), 1)

-----------------------------------------------------------------------------
(* The paginator: the for loop of create_content_file (src/app.py:165-180) *)

BlankLine == [kind |-> "blank", row |-> 0]
PageBreak == [kind |-> "page_break", row |-> 0]
Paragraph(i) == [kind |-> "paragraph", row |-> i]

\* add_empty_lines(doc, count)
add_empty_lines(d, count) == d \o [i \in 1..count |-> BlankLine]

\* the same test with the comparison off by one
OverflowsAtLimit(line, est) == line + est >= LINES_PER_PAGE

\* if current_line + estimated_lines > Config.LINES_PER_PAGE
Overflows(line, est) == line + est > LINES_PER_PAGE

\* the loop body with the page break after the row instead of before it
PlaceRowThenBreak(st, i, t) ==
    LET est == estimate_line_count(t, MAX_CHARS_PER_LINE)
        full == Overflows(st.current_line, est)
        placed == Append(st.doc, Paragraph(i))
    IN [doc |-> IF full THEN add_empty_lines(Append(placed, PageBreak), START_LINE - 1)
                ELSE placed,
        current_line |-> IF full THEN START_LINE ELSE st.current_line + est]

\* one pass of the loop body for row i with text t: [doc, current_line] after it
PlaceRow(st, i, t) ==
    LET est == estimate_line_count(t, MAX_CHARS_PER_LINE)
        full == Overflows(st.current_line, est)
        page == IF full THEN add_empty_lines(Append(st.doc, PageBreak), START_LINE - 1)
                ELSE st.doc
        line == IF full THEN START_LINE ELSE st.current_line
    IN [doc |-> Append(page, Paragraph(i)), current_line |-> line + est]

\* add_empty_lines(doc, START_LINE - 1); current_line = START_LINE
NewDocument == [doc |-> add_empty_lines(<<>>, START_LINE - 1), current_line |-> START_LINE]

-----------------------------------------------------------------------------
(* Values the variables of an operation hold while another one is modelled *)

IdleEstimate ==
    /\ text = NoText
    /\ max_chars_per_line = MAX_CHARS_PER_LINE
    /\ estimated_lines = 0

IdleResolve ==
    /\ columns = <<>>
    /\ keywords = List(<<>>)
    /\ matched = None

IdlePaginator ==
    /\ valid_rows = <<>>
    /\ row_idx = 0
    /\ current_line = START_LINE
    /\ doc = <<>>

NoRequest == [file |-> "missing"]
NoResponse == [status |-> 0]

IdleRequest ==
    /\ req = NoRequest
    /\ response = NoResponse
    /\ raised = "none"
    /\ output_files = EmptyDir
    /\ clock = 0
    /\ served = 0

estimateVars == <<text, max_chars_per_line, estimated_lines>>
resolveVars == <<columns, keywords, matched>>
paginatorVars == <<valid_rows, row_idx, current_line, doc>>
requestVars == <<req, response, raised, output_files, clock, served>>

-----------------------------------------------------------------------------
(* Specification of estimate_line_count *)

Texts == {NoText} \cup {Text(n) : n \in 0..MaxTextLen}

InitEstimate ==
    /\ pc = "idle"
    /\ text \in Texts
    /\ max_chars_per_line \in 1..MaxLineWidth
    /\ estimated_lines = 0
    /\ IdleResolve /\ IdlePaginator /\ IdleRequest

CallEstimate ==
    /\ pc = "idle"
    /\ pc' = "done"
    /\ estimated_lines' = estimate_line_count(text, max_chars_per_line)
    /\ UNCHANGED <<text, max_chars_per_line, resolveVars, paginatorVars, requestVars>>

NextEstimate == CallEstimate

SpecEstimate == InitEstimate /\ [][NextEstimate]_vars

-----------------------------------------------------------------------------
(* Specification of find_matching_column *)

\* headers and aliases in mixed case, some inside others
HeaderPool == {<<"a">>, <<"A", "b">>, <<"b">>, <<"B", "a">>, <<"c">>, <<>>}
AliasPool == {<<"a">>, <<"B">>, <<"a", "b">>, <<"b", "A">>, <<"d">>}

InitResolve ==
    /\ pc = "idle"
    /\ columns \in SeqsUpTo(HeaderPool, MaxHeaders)
    /\ keywords \in {Str(a) : a \in AliasPool}
                    \cup {List(l) : l \in SeqsUpTo(AliasPool, MaxKeywords)}
    /\ matched = None
    /\ IdleEstimate /\ IdlePaginator /\ IdleRequest

CallResolve ==
    /\ pc = "idle"
    /\ pc' = "done"
    /\ matched' = find_matching_column(columns, keywords)
    /\ UNCHANGED <<columns, keywords, estimateVars, paginatorVars, requestVars>>

NextResolve == CallResolve

SpecResolve == InitResolve /\ [][NextResolve]_vars

-----------------------------------------------------------------------------
(* Specification of the paginator *)

\* lengths of formatted rows: one line, a full line, one character more, half a
\* page, exactly the room a page has, and more than a page has
RowLengths ==
    {1, MAX_CHARS_PER_LINE, MAX_CHARS_PER_LINE + 1, 5 * MAX_CHARS_PER_LINE,
     (LINES_PER_PAGE - START_LINE) * MAX_CHARS_PER_LINE,
     (LINES_PER_PAGE - START_LINE) * MAX_CHARS_PER_LINE + 1}

InitPaginator ==
    /\ pc = "idle"
    /\ valid_rows \in SeqsUpTo({Text(n) : n \in RowLengths}, MaxRows)
    /\ row_idx = 0
    /\ current_line = NewDocument.current_line
    /\ doc = NewDocument.doc
    /\ IdleEstimate /\ IdleResolve /\ IdleRequest

\* one pass of `for content in valid_rows['content']`
PaginateRow ==
    /\ pc = "idle"
    /\ row_idx < Len(valid_rows)
    /\ LET st == PlaceRow([doc |-> doc, current_line |-> current_line],
                          row_idx + 1, valid_rows[row_idx + 1])
       IN /\ doc' = st.doc
          /\ current_line' = st.current_line
    /\ row_idx' = row_idx + 1
    /\ UNCHANGED <<pc, valid_rows, estimateVars, resolveVars, requestVars>>

\* the loop is over: the document is saved as it stands
FinishDocument ==
    /\ pc = "idle"
    /\ row_idx = Len(valid_rows)
    /\ pc' = "done"
    /\ UNCHANGED <<paginatorVars, estimateVars, resolveVars, requestVars>>

NextPaginator == PaginateRow \/ FinishDocument

SpecPaginator == InitPaginator /\ [][NextPaginator]_vars

-----------------------------------------------------------------------------
(* Uploaded tables (pandas DataFrames) *)

\* a table: its column headers in sheet order, and its records, each a sequence
\* of cells in column order; an empty cell is None (NaN), a filled one Some(text)
DataFrame(cols, rows) == [columns |-> cols, rows |-> rows]

Range(f) == {f[i] : i \in DOMAIN f}

\* the position of header h among the columns of df
ColumnIndex(df, h) == CHOOSE i \in DOMAIN df.columns : df.columns[i] = h

\* df[h][r]
Cell(df, r, h) == df.rows[r][ColumnIndex(df, h)]

\* df[h].notna().any()
NotnaAny(df, h) == \E r \in DOMAIN df.rows : Cell(df, r, h).some

\* the records of df, by position, whose cell in column h is filled:
\* df[df[h].notna()]
RECURSIVE NotnaRows(_, _, _)
NotnaRows(df, h, r) ==
    IF r > Len(df.rows) THEN <<>>
    ELSE (IF Cell(df, r, h).some THEN <<r>> ELSE <<>>) \o NotnaRows(df, h, r + 1)

\* list(dict.fromkeys(l)): l without repetitions, first occurrences kept
RECURSIVE Dedup(_)
Dedup(l) ==
    IF l = <<>> THEN <<>>
    ELSE LET front == Dedup(SubSeq(l, 1, Len(l) - 1))
             last == l[Len(l)]
         IN IF last \in Range(front) THEN front ELSE Append(front, last)

\* df[cols].copy()
Project(df, cols) ==
    DataFrame(cols, [r \in DOMAIN df.rows |->
                        [i \in DOMAIN cols |-> Cell(df, r, cols[i])]])

-----------------------------------------------------------------------------
(* Headers, aliases and file names of process_excel *)

HName == <<"xingming">>
HEmail == <<"Email">>
HPhone == <<"xingdong_dianhua">>

\* required_base_columns (src/app.py:415)
required_base_columns == {HName, HEmail, HPhone}

\* the aliases each artifact's column is looked up by
XiazaiKeywords == Str(<<"qifu_paiwei">>)
ChaojianKeywords == List(<<<<"chaojian_paiwei">>, <<"chaodu_paiwei">>>>)
GongdeKeywords == Str(<<"gongdezhu">>)
NoteKeywords == Str(<<"guanlizhe_zhuji">>)
NameKeywords == Str(<<"xingming">>)
ActivityKeywords == List(<<<<"canjia_xiangmu">>, <<"canyu_kecheng">>>>)

\* the regular expression of the attendance filter, one alternative per marker
AttendanceMarkers == {<<"xianchang_shangke">>, <<"daochang_canjia">>}

ArtifactKeys == <<"xiazai", "chaojian", "gongde">>

\* Config.FILE_NAMES
FILE_NAMES ==
    [xiazai |-> "xiaozai_paiwei", chaojian |-> "chaojian_paiwei",
     gongde |-> "gongdezhu", participant |-> "canjiazhe_mingdan"]

\* f'{file_type}_{timestamp}.docx': a file name is its type and its timestamp
FileName(file_type, timestamp) == [type |-> file_type, ts |-> timestamp]

\* doc.save(file_path) / wb.save(file_path): the file is created, or replaced
\* when a file of that name is there already
Save(dir, name, content) ==
    [f \in DOMAIN dir \cup {name} |->
        IF f = name
        THEN [writes |-> IF name \in DOMAIN dir THEN dir[name].writes + 1 ELSE 1,
              content |-> content]
        ELSE dir[f]]

\* d[k] = v
Put(d, k, v) == [x \in DOMAIN d \cup {k} |-> IF x = k THEN v ELSE d[x]]

-----------------------------------------------------------------------------
(* The document generators (src/app.py:144-293) *)

\* `not column_name`: None and "" are both falsy
Truthy(c) == c.some /\ c.val # <<>>

\* a generator's outcome: whether it raised, the path it returned, the directory
Outcome(r, path, dir) == [raised |-> r, path |-> path, dir |-> dir]

\* create_content_file without its guard on empty columns
CreateContentFileUnguarded(df, column_name, file_type, timestamp, dir, fails) ==
    IF ~Truthy(column_name) THEN Outcome(FALSE, None, dir)
    ELSE IF fails THEN Outcome(TRUE, None, dir)
    ELSE LET name == FileName(file_type, timestamp)
         IN Outcome(FALSE, Some(name), Save(dir, name, NotnaRows(df, column_name.val, 1)))

\* create_content_file: None when the column is absent or holds no value; else
\* the rows with a value are laid out (by the paginator above) and the document
\* is saved, which raises when the write fails.  The saved file is recorded by
\* the records it holds, in order.
create_content_file(df, column_name, file_type, timestamp, dir, fails) ==
    IF ~Truthy(column_name) \/ ~NotnaAny(df, column_name.val)
    THEN Outcome(FALSE, None, dir)
    ELSE IF fails THEN Outcome(TRUE, None, dir)
    ELSE LET name == FileName(file_type, timestamp)
         IN Outcome(FALSE, Some(name), Save(dir, name, NotnaRows(df, column_name.val, 1)))

\* create_gongde_file: the same guard, one table row per record with a value
create_gongde_file(df, column_mapping, timestamp, dir, fails) ==
    IF ~Truthy(column_mapping.gongde) \/ ~NotnaAny(df, column_mapping.gongde.val)
    THEN Outcome(FALSE, None, dir)
    ELSE IF fails THEN Outcome(TRUE, None, dir)
    ELSE LET name == FileName(FILE_NAMES.gongde, timestamp)
         IN Outcome(FALSE, Some(name),
                    Save(dir, name, NotnaRows(df, column_mapping.gongde.val, 1)))

\* file_paths after a generator returned: `if path := ...: file_paths[type] = path`
Keep(file_paths, file_type, out) ==
    IF out.path.some THEN Put(file_paths, file_type, out.path.val) ELSE file_paths

\* create_word_files: the three generators in turn, under one timestamp; the
\* first one that raises ends it.  faults: the artifacts whose save fails.
create_word_files(df, column_mapping, timestamp, dir, faults) ==
    LET x == create_content_file(df, column_mapping.xiazai, FILE_NAMES.xiazai,
                                 timestamp, dir, "xiazai" \in faults)
        px == Keep(EmptyDir, FILE_NAMES.xiazai, x)
        c == create_content_file(df, column_mapping.chaojian, FILE_NAMES.chaojian,
                                 timestamp, x.dir, "chaojian" \in faults)
        pc2 == Keep(px, FILE_NAMES.chaojian, c)
        g == IF Truthy(column_mapping.gongde)
             THEN create_gongde_file(df, column_mapping, timestamp, c.dir,
                                     "gongde" \in faults)
             ELSE Outcome(FALSE, None, c.dir)
        pg == Keep(pc2, FILE_NAMES.gongde, g)
    IN IF x.raised THEN [raised |-> TRUE, file_paths |-> EmptyDir, dir |-> x.dir]
       ELSE IF c.raised THEN [raised |-> TRUE, file_paths |-> px, dir |-> c.dir]
       ELSE IF g.raised THEN [raised |-> TRUE, file_paths |-> pc2, dir |-> g.dir]
       ELSE [raised |-> FALSE, file_paths |-> pg, dir |-> g.dir]

\* str.contains('xianchang_shangke|daochang_canjia', case=False, na=False)
Attends(cell) ==
    cell.some /\ \E m \in AttendanceMarkers : Contains(Lower(m), Lower(cell.val))

\* df[attendance_mask]: the attending records, by position, in record order
RECURSIVE Participants(_, _, _)
Participants(df, activity, r) ==
    IF r > Len(df.rows) THEN <<>>
    ELSE (IF Attends(Cell(df, r, activity)) THEN <<r>> ELSE <<>>)
         \o Participants(df, activity, r + 1)

\* the data rows numbered by the record's position in the upload
RosterRowsAsUploaded(participants) ==
    [k \in DOMAIN participants |-> [number |-> participants[k], record |-> participants[k]]]

\* the data rows of the roster: numbered from 1 (row_idx - 2), one per participant
RosterRows(participants) ==
    [k \in DOMAIN participants |-> [number |-> k, record |-> participants[k]]]

\* create_participant_excel (src/app.py:299-389).  A column without any text
\* (all cells empty) is read as a numeric column, on which .str raises.
create_participant_excel(df, timestamp, dir, fails) ==
    LET name == find_matching_column(df.columns, NameKeywords)
        activity == find_matching_column(df.columns, ActivityKeywords)
    IN IF ~(Truthy(name) /\ Truthy(activity)) THEN Outcome(FALSE, None, dir)
       ELSE IF df.rows # <<>> /\ ~NotnaAny(df, activity.val)
            THEN Outcome(TRUE, None, dir)
       ELSE LET participants == Participants(df, activity.val, 1)
                file == FileName(FILE_NAMES.participant, timestamp)
            IN IF participants = <<>> THEN Outcome(FALSE, None, dir)
               ELSE IF fails THEN Outcome(TRUE, None, dir)
               ELSE Outcome(FALSE, Some(file), Save(dir, file, RosterRows(participants)))

-----------------------------------------------------------------------------
(* process_excel (src/app.py:391-529) *)

\* error messages
Message(t) == [text |-> t, columns |-> {}]
MissingColumnsMessage(missing) == [text |-> "queshao_jiben_lanwei", columns |-> missing]

\* jsonify(response_data), 200 and jsonify({'error': str(e)}), status
Success(files) == [status |-> 200, files |-> files, error |-> None]
Failure(status, message) == [status |-> status, files |-> EmptyDir, error |-> Some(message)]

\* request.form.get('activityType', 'both')
FormActivityType(r) == IF r.activityType.some THEN r.activityType.val ELSE "both"

\* validate_columns reporting one missing column only
FirstMissingColumn(df) ==
    LET missing == required_base_columns \ Range(df.columns)
    IN IF missing = {} THEN {} ELSE {CHOOSE h \in missing : TRUE}

\* validate_columns: the required base columns that df lacks
validate_columns(df) == required_base_columns \ Range(df.columns)

\* validate_activity_data: a 3-tuple for any type but 'both'; else the columns
\* found on the uploaded table and whether each holds a value, or an error
validate_activity_data(df, activity_type) ==
    IF activity_type # "both" THEN [kind |-> "tuple3"]
    ELSE LET cols == [xiazai |-> find_matching_column(df.columns, XiazaiKeywords),
                      chaojian |-> find_matching_column(df.columns, ChaojianKeywords),
                      gongde |-> find_matching_column(df.columns, GongdeKeywords)]
             has_data == [k \in DOMAIN cols |->
                             cols[k].some /\ NotnaAny(df, cols[k].val)]
         IN IF \A k \in DOMAIN cols : ~Truthy(cols[k])
            THEN [kind |-> "raise", error |-> Message("bixu_baohan_lanwei")]
            ELSE IF \A k \in DOMAIN cols : ~has_data[k]
            THEN [kind |-> "raise", error |-> Message("bixu_tianxie_ziliao")]
            ELSE [kind |-> "tuple2", columns |-> cols, has_data |-> has_data]

\* relevant_columns: the base columns, the columns validate_activity_data found,
\* the note column; repetitions dropped
RelevantColumns(cols, note_column) ==
    LET found == SelectSeq([i \in DOMAIN ArtifactKeys |-> cols[ArtifactKeys[i]]], Truthy)
    IN Dedup(<<HName, HEmail, HPhone>>
             \o [i \in DOMAIN found |-> found[i].val]
             \o (IF Truthy(note_column) THEN <<note_column.val>> ELSE <<>>))

\* column_mapping: the artifact columns looked up again, on the working table
ColumnMapping(working_columns, note_column) ==
    [xiazai |-> find_matching_column(working_columns, XiazaiKeywords),
     chaojian |-> find_matching_column(working_columns, ChaojianKeywords),
     gongde |-> find_matching_column(working_columns, GongdeKeywords),
     note |-> note_column]

\* response_data['files'] after the loop over file_types
RECURSIVE ListedFiles(_, _, _)
ListedFiles(has_data, file_paths, i) ==
    IF i = 0 THEN EmptyDir
    ELSE LET key == ArtifactKeys[i]
             before == ListedFiles(has_data, file_paths, i - 1)
         IN IF has_data[key] /\ FILE_NAMES[key] \in DOMAIN file_paths
            THEN Put(before, key, file_paths[FILE_NAMES[key]])
            ELSE before

\* the `if activity_type == 'both'` block: [raised, files, dir]
CeremonyDocuments(df, cols, has_data, timestamp, dir, faults) ==
    LET note_column == find_matching_column(df.columns, NoteKeywords)
        working_df == Project(df, RelevantColumns(cols, note_column))
        column_mapping == ColumnMapping(working_df.columns, note_column)
        w == create_word_files(working_df, column_mapping, timestamp, dir, faults)
    IN [raised |-> w.raised,
        files |-> ListedFiles(has_data, w.file_paths, Len(ArtifactKeys)),
        dir |-> w.dir]

\* what a request ends with
Result(resp, step, dir) == [response |-> resp, raised |-> step, dir |-> dir]

\* the same block with its exception swallowed the way the roster's is
CeremonyThenRosterLenient(df, v, activity_type, timestamp, dir, faults) ==
    LET c == IF activity_type = "both"
             THEN CeremonyDocuments(df, v.columns, v.has_data, timestamp, dir, faults)
             ELSE [raised |-> FALSE, files |-> EmptyDir, dir |-> dir]
        p == create_participant_excel(df, timestamp, c.dir, "participant" \in faults)
        files == IF c.raised THEN EmptyDir ELSE c.files
    IN Result(Success(IF p.path.some THEN Put(files, "participant", p.path.val)
                      ELSE files),
              IF c.raised THEN "create_word_files"
              ELSE IF p.raised THEN "create_participant_excel" ELSE "none",
              p.dir)

\* lines 463-522: the ceremony documents, whose exception is raised again and
\* ends the request, then the roster, whose exception is logged and dropped
CeremonyThenRoster(df, v, activity_type, timestamp, dir, faults) ==
    LET c == IF activity_type = "both"
             THEN CeremonyDocuments(df, v.columns, v.has_data, timestamp, dir, faults)
             ELSE [raised |-> FALSE, files |-> EmptyDir, dir |-> dir]
        p == create_participant_excel(df, timestamp, c.dir, "participant" \in faults)
    IN IF c.raised
       THEN Result(Failure(500, Message("save_failed")), "create_word_files", c.dir)
       ELSE Result(Success(IF p.path.some THEN Put(c.files, "participant", p.path.val)
                           ELSE c.files),
                   IF p.raised THEN "create_participant_excel" ELSE "none",
                   p.dir)

\* process_excel as a whole.  faults: the artifacts whose save fails;
\* read_status: 400 when pd.read_excel raises a ValueError, 500 otherwise.
Handle(r, timestamp, dir, faults, read_status) ==
    LET activity_type == FormActivityType(r)
        missing == validate_columns(r.df)
        v == validate_activity_data(r.df, activity_type)
    IN IF r.file = "missing"
       THEN Result(Failure(400, Message("meiyou_dangan")), "validate_file", dir)
       ELSE IF r.file = "empty_filename"
       THEN Result(Failure(400, Message("meiyou_xuanze_dangan")), "validate_file", dir)
       ELSE IF r.file = "unreadable"
       THEN Result(Failure(read_status, Message("read_failed")), "read_excel_file", dir)
       ELSE IF missing # {}
       THEN Result(Failure(400, MissingColumnsMessage(missing)), "validate_columns", dir)
       ELSE IF v.kind = "raise"
       THEN Result(Failure(400, v.error), "validate_activity_data", dir)
       ELSE IF v.kind = "tuple3"
       THEN Result(Failure(400, Message("too_many_values_to_unpack")), "unpack", dir)
       ELSE CeremonyThenRoster(r.df, v, activity_type, timestamp, dir, faults)

-----------------------------------------------------------------------------
(* Uploads *)

\* optional headers: the blessing tablets ("qifu_paiwei(suixi)"), the memorial
\* tablets under their second alias, one header naming both tablets, the donors
\* ("canzan gongdezhu"), and the activity
OptionalHeaders ==
    {<<"qifu_paiwei", "suixi">>, <<"chaodu_paiwei">>,
     <<"qifu_paiwei", "chaojian_paiwei">>, <<"canzan", "gongdezhu">>,
     <<"canjia_xiangmu">>}

\* the values a cell of column h may hold: a base column is filled (the
\* zero-padding of the phone number, str.zfill(10), changes no cell's emptiness
\* and is left out); the activity cell is empty, an attendance marker, or
\* another activity; any other cell is empty or holds text
CellValues(h) ==
    IF h \in required_base_columns THEN {Some(<<"zhi">>)}
    ELSE IF h = <<"canjia_xiangmu">>
    THEN {None, Some(<<"xianchang_shangke">>), Some(<<"xianshang">>)}
    ELSE {None, Some(<<"wenzi">>)}

\* the records a table of these columns may hold
RowsOf(cols) ==
    {r \in [DOMAIN cols -> UNION {CellValues(cols[i]) : i \in DOMAIN cols}] :
        \A i \in DOMAIN cols : r[i] \in CellValues(cols[i])}

\* the base columns of b in sheet order, then the optional columns
ColumnsOf(b, optional) ==
    SelectSeq(<<HName, HEmail, HPhone>>, LAMBDA h : h \in b) \o optional

Distinct(l) == Cardinality(Range(l)) = Len(l)

\* the optional columns of a table: none or one; up to two different ones in
\* either order; three different ones in any order
NarrowLayouts == {<<>>} \cup {<<h>> : h \in OptionalHeaders}

Layouts ==
    NarrowLayouts
    \cup {l \in {<<g, h>> : g \in OptionalHeaders, h \in OptionalHeaders} : Distinct(l)}

WideLayouts ==
    {l \in {<<f, g, h>> : f \in OptionalHeaders, g \in OptionalHeaders,
                          h \in OptionalHeaders} : Distinct(l)}

\* the tables with base columns b, optional columns from layouts, and at most
\* MaxRecords records
Tables(b, layouts) ==
    UNION {{DataFrame(ColumnsOf(b, o), rows) :
                rows \in SeqsUpTo(RowsOf(ColumnsOf(b, o)), MaxRecords)} :
           o \in layouts}

\* the tables of one record with three optional columns
WideTables ==
    UNION {{DataFrame(ColumnsOf(required_base_columns, o), <<r>>) :
                r \in RowsOf(ColumnsOf(required_base_columns, o))} :
           o \in WideLayouts}

\* the form without activityType, and with it
ActivityTypes == {None, Some("both"), Some("participant")}

Upload(file, activityType, df) == [file |-> file, activityType |-> activityType, df |-> df]

\* requests without a readable file
BrokenUploads ==
    {Upload(f, a, DataFrame(<<>>, <<>>)) :
        f \in {"missing", "empty_filename", "unreadable"}, a \in ActivityTypes}

\* requests whose table lacks a base column
IncompleteUploads ==
    {Upload("ok", a, df) :
        a \in ActivityTypes,
        df \in UNION {Tables(b, NarrowLayouts) :
                         b \in (SUBSET required_base_columns) \ {required_base_columns}}}

\* requests whose table has the base columns
CompleteUploads ==
    {Upload("ok", a, df) :
        a \in ActivityTypes,
        df \in Tables(required_base_columns, Layouts) \cup WideTables}

Uploads == BrokenUploads \cup IncompleteUploads \cup CompleteUploads

\* the artifact whose save fails during a request, if any: a failure ends
\* create_word_files, so that a second one could only hit the roster
FaultPoints == {"xiazai", "chaojian", "gongde", "participant"}
Faults == {{}} \cup {{f} : f \in FaultPoints}

\* the status of a request whose file cannot be read: 400 when pd.read_excel
\* raises a ValueError, 500 when it raises anything else
ReadStatuses(r) == IF r.file = "unreadable" THEN {400, 500} ELSE {500}

-----------------------------------------------------------------------------
(* Specification of one request *)

Init ==
    /\ pc = "idle"
    /\ req \in Uploads
    /\ response = NoResponse
    /\ raised = "none"
    /\ output_files = EmptyDir
    /\ clock = 0
    /\ served = 0
    /\ IdleEstimate /\ IdleResolve /\ IdlePaginator

\* the handler of POST /process_excel, from the request to the response
process_excel ==
    /\ pc = "idle"
    /\ \E faults \in Faults, read_status \in ReadStatuses(req) :
          LET out == Handle(req, clock, output_files, faults, read_status)
          IN /\ response' = out.response
             /\ raised' = out.raised
             /\ output_files' = out.dir
    /\ pc' = "done"
    /\ served' = served + 1
    /\ UNCHANGED <<req, clock, estimateVars, resolveVars, paginatorVars>>

Next == process_excel

Spec == Init /\ [][Next]_vars

-----------------------------------------------------------------------------
(* Specification of requests served one after another against one directory *)

\* uploads of one fully filled record, sent without activityType
DirUploads ==
    {Upload("ok", None, df) :
        df \in {t \in Tables(required_base_columns, Layouts) :
                   /\ Len(t.rows) = 1
                   /\ \A i \in DOMAIN t.columns : t.rows[1][i].some}}

InitDir ==
    /\ pc = "idle"
    /\ req \in DirUploads
    /\ response = NoResponse
    /\ raised = "none"
    /\ output_files = EmptyDir
    /\ clock = 0
    /\ served = 0
    /\ IdleEstimate /\ IdleResolve /\ IdlePaginator

\* a second goes by
Tick ==
    /\ clock < MaxClock
    /\ clock' = clock + 1
    /\ UNCHANGED <<pc, req, response, raised, output_files, served,
                   estimateVars, resolveVars, paginatorVars>>

\* the next request arrives
NextRequest ==
    /\ pc = "done"
    /\ served < MaxRequests
    /\ pc' = "idle"
    /\ req' \in DirUploads
    /\ UNCHANGED <<response, raised, output_files, clock, served,
                   estimateVars, resolveVars, paginatorVars>>

NextDir == process_excel \/ Tick \/ NextRequest

SpecDir == InitDir /\ [][NextDir]_vars

-----------------------------------------------------------------------------
(* Specification of one request made for the participant roster *)

HNumber == <<"xiangci">>
HTablet == <<"chaodu_paiwei">>
HActivity == <<"canjia_xiangmu">>
HCourse == <<"canyu_kecheng">>

\* the optional columns of such an upload: a filled tablet column, so that the
\* request passes validate_activity_data, with the activity column; the same
\* with the upload's own numbering in front; the same with a second activity
\* column ahead of the first; and no activity column at all
RosterLayouts ==
    {<<HTablet, HActivity>>, <<HNumber, HTablet, HActivity>>,
     <<HTablet, HCourse, HActivity>>, <<HTablet>>}

\* the values a cell of column h may hold: the upload's number is 7 (qi); an
\* activity cell is empty, an attendance marker alone or inside a longer text,
\* or another activity
RosterCellValues(h) ==
    IF h = HNumber THEN {Some(<<"qi">>)}
    ELSE IF h = HActivity
    THEN {None, Some(<<"xianchang_shangke">>),
          Some(<<"quancheng", "daochang_canjia">>), Some(<<"xianshang">>)}
    ELSE IF h = HCourse THEN {None, Some(<<"daochang_canjia">>)}
    ELSE {Some(<<"zhi">>)}

RosterRowsOf(cols) ==
    {r \in [DOMAIN cols -> UNION {RosterCellValues(cols[i]) : i \in DOMAIN cols}] :
        \A i \in DOMAIN cols : r[i] \in RosterCellValues(cols[i])}

\* the tables of these layouts with one to MaxAttendance records
RosterTables ==
    UNION {{DataFrame(ColumnsOf(required_base_columns, o), rows) :
                rows \in SeqsUpTo(RosterRowsOf(ColumnsOf(required_base_columns, o)),
                                  MaxAttendance) \ {<<>>}} :
           o \in RosterLayouts}

\* sent without activityType, which then is 'both'
RosterUploads == {Upload("ok", None, df) : df \in RosterTables}

InitRoster ==
    /\ pc = "idle"
    /\ req \in RosterUploads
    /\ response = NoResponse
    /\ raised = "none"
    /\ output_files = EmptyDir
    /\ clock = 0
    /\ served = 0
    /\ IdleEstimate /\ IdleResolve /\ IdlePaginator

NextRoster == process_excel

SpecRoster == InitRoster /\ [][NextRoster]_vars

-----------------------------------------------------------------------------
(* Claims about the paginator, checked under SpecPaginator *)

\* the paragraphs of a document, in document order
Paragraphs(d) == SelectSeq(d, LAMBDA e : e.kind = "paragraph")

\* what the loop appended to the document in the step just taken
Appended == SubSeq(doc', Len(doc) + 1, Len(doc'))

\* C1: the cursor starts at START_LINE; a row is preceded by a page break if and
\* only if cursor + the row's estimate > LINES_PER_PAGE; at a page break
\* START_LINE - 1 blank lines are re-inserted and the cursor restarts at
\* START_LINE; the cursor then advances by the row's estimate.
PageBreakIffOverflow ==
    /\ [](row_idx = 0 => current_line = START_LINE)
    /\ [][row_idx' = row_idx + 1 =>
            LET est == estimate_line_count(valid_rows[row_idx'], MAX_CHARS_PER_LINE)
                over == current_line + est > LINES_PER_PAGE
                row == <<Paragraph(row_idx')>>
                blanks == [i \in 1..(START_LINE - 1) |-> BlankLine]
            IN /\ over <=> (\E i \in DOMAIN Appended : Appended[i] = PageBreak)
               /\ over => /\ Appended = <<PageBreak>> \o blanks \o row
                          /\ current_line' = START_LINE + est
               /\ ~over => /\ Appended = row
                           /\ current_line' = current_line + est]_vars

\* C1 witness: a finished document where one row was preceded by a page break and
\* another row followed a row directly
PageBreakIffOverflowWitness ==
    /\ pc = "done"
    /\ row_idx >= 2
    /\ \E i \in DOMAIN doc : doc[i] = PageBreak
    /\ \E i \in 1..(Len(doc) - 1) :
          doc[i].kind = "paragraph" /\ doc[i + 1].kind = "paragraph"

\* C2: every row consumed so far is in the document exactly once, as one
\* paragraph, in input order; nothing follows the last row placed; and a
\* finished document has consumed all rows.
EveryRowEmittedOnce ==
    /\ Paragraphs(doc) = [i \in 1..row_idx |-> Paragraph(i)]
    /\ row_idx > 0 => doc[Len(doc)] = Paragraph(row_idx)
    /\ pc = "done" => row_idx = Len(valid_rows)

\* C2 witness: a finished document of several rows, one of them longer than the
\* room a page has
EveryRowEmittedOnceWitness ==
    /\ pc = "done"
    /\ Len(valid_rows) >= 2
    /\ \E i \in DOMAIN valid_rows :
          estimate_line_count(valid_rows[i], MAX_CHARS_PER_LINE)
              > LINES_PER_PAGE - START_LINE

-----------------------------------------------------------------------------
(* Claim about estimate_line_count, checked under SpecEstimate *)

\* C3: the estimate is 1 for an empty or absent text, and otherwise the least
\* k with k * max >= len(text), that is ceil(len / max); it is always >= 1.
EstimateIsCeiling ==
    pc = "done" =>
        /\ estimated_lines >= 1
        /\ Falsy(text) => estimated_lines = 1
        /\ ~Falsy(text) =>
              /\ estimated_lines * max_chars_per_line >= text.len
              /\ (estimated_lines - 1) * max_chars_per_line < text.len

\* C3 witness: a text longer than a line whose length is no multiple of the
\* line width has been estimated
EstimateIsCeilingWitness ==
    /\ pc = "done"
    /\ ~text.none
    /\ text.len > max_chars_per_line
    /\ text.len % max_chars_per_line # 0
    /\ estimated_lines > 1

-----------------------------------------------------------------------------
(* Claim about find_matching_column, checked under SpecResolve *)

\* the aliases as the caller wrote them
Aliases == IF IsStr(keywords) THEN <<keywords.str>> ELSE keywords.list

\* column i contains alias j, case ignored
AliasInColumn(j, i) == Contains(Lower(Aliases[j]), Lower(columns[i]))

ColumnMatches(i) == \E j \in DOMAIN Aliases : AliasInColumn(j, i)

\* C4: the result is the first column, in column order, that contains some
\* alias, case ignored, whatever the order of the aliases; None when no column
\* contains an alias.
ResolveFirstMatch ==
    pc = "done" =>
        IF \E i \in DOMAIN columns : ColumnMatches(i)
        THEN \E i \in DOMAIN columns :
                /\ ColumnMatches(i)
                /\ \A h \in 1..(i - 1) : ~ColumnMatches(h)
                /\ matched = Some(columns[i])
        ELSE matched = None

\* C4 witness: two different columns match, the first column only through the
\* second alias and the first alias only in the second column; the first column
\* was returned
ResolveFirstMatchWitness ==
    /\ pc = "done"
    /\ Len(columns) = 2 /\ columns[1] # columns[2]
    /\ Len(Aliases) = 2
    /\ ~AliasInColumn(1, 1) /\ AliasInColumn(2, 1) /\ AliasInColumn(1, 2)
    /\ matched = Some(columns[1])

-----------------------------------------------------------------------------
(* Claims about process_excel, checked under Spec *)

\* the request carries a readable table with the three base columns
HasBaseColumns == req.file = "ok" /\ required_base_columns \subseteq Range(req.df.columns)

\* the columns validate_activity_data resolved on the uploaded table, and the
\* columns the artifacts are generated from (column_mapping)
ValidatedColumns == validate_activity_data(req.df, "both")
NoteColumn == find_matching_column(req.df.columns, NoteKeywords)
ArtifactColumn(key) ==
    ColumnMapping(RelevantColumns(ValidatedColumns.columns, NoteColumn), NoteColumn)[key]

\* the artifact's column was resolved and holds a value in some record
ResolvedWithData(key) ==
    /\ HasBaseColumns
    /\ ValidatedColumns.kind = "tuple2"
    /\ ArtifactColumn(key).some
    /\ \E r \in DOMAIN req.df.rows : Cell(req.df, r, ArtifactColumn(key).val).some

\* the artifact's document is in the output directory; its key is in the response
Written(key) == \E f \in DOMAIN output_files : f.type = FILE_NAMES[key]
Listed(key) == response.status = 200 /\ key \in DOMAIN response.files

\* the upload has a donor column, and no donor column of it holds a value
DonorColumnsEmpty ==
    /\ \E i \in DOMAIN req.df.columns : Contains(<<"gongdezhu">>, req.df.columns[i])
    /\ \A i \in DOMAIN req.df.columns : \A r \in DOMAIN req.df.rows :
          Contains(<<"gongdezhu">>, req.df.columns[i]) => ~req.df.rows[r][i].some

\* some record's activity cell holds an attendance marker
HasAttendee ==
    \E i \in DOMAIN req.df.columns : \E r \in DOMAIN req.df.rows :
        /\ \E a \in Range(ActivityKeywords.list) : Contains(a, req.df.columns[i])
        /\ req.df.rows[r][i].some
        /\ \E m \in AttendanceMarkers : Contains(m, req.df.rows[r][i].val)

\* C5: a ceremony document is written, and its key is in the response, only if
\* the artifact's resolved column exists and holds a value in some record; with
\* a donor column whose values are all empty there is no donor document and no
\* donor key.
DocumentOnlyWithData ==
    pc = "done" =>
        /\ \A key \in Range(ArtifactKeys) :
              (Written(key) \/ Listed(key)) => ResolvedWithData(key)
        /\ DonorColumnsEmpty => ~Written("gongde") /\ ~Listed("gongde")

\* C5 witness: a successful request with an all-empty donor column among several
\* records: another document is written and listed, the donor document is neither
DocumentOnlyWithDataWitness ==
    /\ pc = "done"
    /\ response.status = 200
    /\ DonorColumnsEmpty
    /\ Len(req.df.rows) >= 2
    /\ \E key \in {"xiazai", "chaojian"} : Written(key) /\ Listed(key)
    /\ ~Written("gongde") /\ ~Listed("gongde")

\* C6 (as claimed): with the base columns present and an activity type other
\* than 'both', the request succeeds, generates no ceremony document, and lists
\* the participant roster whenever some record attends.
ActivityTypeSelectsRoster ==
    (pc = "done" /\ HasBaseColumns /\ FormActivityType(req) # "both") =>
        /\ response.status = 200
        /\ \A key \in Range(ArtifactKeys) : ~Written(key)
        /\ HasAttendee => "participant" \in DOMAIN response.files

\* C7 (as claimed): when generating the ceremony documents fails, the
\* participant roster of an upload with attendees is still written and listed.
CeremonyFailureKeepsRoster ==
    (pc = "done" /\ raised = "create_word_files" /\ HasAttendee) =>
        /\ Written("participant")
        /\ Listed("participant")

\* C7 (amended): when generating the ceremony documents fails, the request ends
\* with an error response that lists no file, and no participant roster is
\* written.
CeremonyFailureAbortsRequest ==
    (pc = "done" /\ raised = "create_word_files") =>
        /\ response.status = 500
        /\ response.error.some
        /\ response.files = EmptyDir
        /\ ~Written("participant")

\* C7 witness: the ceremony documents failed for an upload with attendees, after
\* one of the documents had been saved
CeremonyFailureAbortsRequestWitness ==
    /\ pc = "done"
    /\ raised = "create_word_files"
    /\ HasAttendee
    /\ \E key \in Range(ArtifactKeys) : Written(key)

\* C8 (as claimed): when create_participant_excel raises, the response is a
\* success that lists every ceremony document written and no participant entry.
RosterFailureKeepsCeremony ==
    (pc = "done" /\ raised = "create_participant_excel") =>
        /\ response.status = 200
        /\ "participant" \notin DOMAIN response.files
        /\ \A key \in Range(ArtifactKeys) :
              Written(key) =>
                  /\ key \in DOMAIN response.files
                  /\ response.files[key] = FileName(FILE_NAMES[key], clock)

\* C10: when a base column is missing from a readable upload, the request ends
\* with an error that names exactly the missing base columns, and nothing is
\* written.
MissingColumnsEnumerated ==
    LET missing == required_base_columns \ Range(req.df.columns)
    IN (pc = "done" /\ req.file = "ok" /\ missing # {}) =>
          /\ response.status = 400
          /\ response.error = Some([text |-> "queshao_jiben_lanwei", columns |-> missing])
          /\ response.files = EmptyDir
          /\ output_files = EmptyDir

\* C10 witness: a request for a table with tablet data that lacks two base
\* columns has been answered
MissingColumnsEnumeratedWitness ==
    /\ pc = "done"
    /\ req.file = "ok"
    /\ Cardinality(required_base_columns \ Range(req.df.columns)) = 2
    /\ \E i \in DOMAIN req.df.columns : \E r \in DOMAIN req.df.rows :
          req.df.columns[i] \in OptionalHeaders /\ req.df.rows[r][i].some

-----------------------------------------------------------------------------
(* Claim about the output directory, checked under SpecDir *)

\* C9 (as claimed): no file of the output directory is ever written a second
\* time.
NeverOverwritten ==
    \A f \in DOMAIN output_files : output_files[f].writes = 1

-----------------------------------------------------------------------------
(* Claim about the participant roster, checked under SpecRoster *)

IsActivityHeader(h) == \E a \in Range(ActivityKeywords.list) : Contains(a, h)

\* the activity field: the first column, in sheet order, named by an activity alias
ActivityField ==
    {i \in DOMAIN req.df.columns :
        /\ IsActivityHeader(req.df.columns[i])
        /\ \A j \in 1..(i - 1) : ~IsActivityHeader(req.df.columns[j])}

\* the records whose activity field contains an attendance marker
Attendees ==
    {r \in DOMAIN req.df.rows :
        \E i \in ActivityField :
            /\ req.df.rows[r][i].some
            /\ \E m \in AttendanceMarkers : Contains(m, req.df.rows[r][i].val)}

\* the rosters in the output directory
RosterFiles == {f \in DOMAIN output_files : f.type = FILE_NAMES.participant}

\* C11: a roster holds exactly one data row per record whose activity field
\* contains an attendance marker and no other row, in record order, numbered
\* 1..k whatever the records' positions or numbers in the upload; when no
\* record matches no roster is produced; and a request that ends without an
\* exception produces and lists the roster of its matching records.
RosterHoldsAttendees ==
    pc = "done" =>
        /\ \A f \in RosterFiles :
              LET rows == output_files[f].content
              IN /\ Len(rows) = Cardinality(Attendees)
                 /\ \A k \in DOMAIN rows :
                       rows[k].number = k /\ rows[k].record \in Attendees
                 /\ \A j \in DOMAIN rows : \A k \in DOMAIN rows :
                       j < k => rows[j].record < rows[k].record
        /\ Attendees = {} => RosterFiles = {} /\ ~Listed("participant")
        /\ (Attendees # {} /\ response.status = 200 /\ raised = "none") =>
              RosterFiles # {} /\ Listed("participant")

\* C11 witness: an upload with its own numbering whose first and third records
\* attend and whose second does not; its roster of two rows was written
RosterHoldsAttendeesWitness ==
    /\ pc = "done"
    /\ HNumber \in Range(req.df.columns)
    /\ Len(req.df.rows) = 3
    /\ Attendees = {1, 3}
    /\ \E f \in RosterFiles : Len(output_files[f].content) = 2
    /\ Listed("participant")

-----------------------------------------------------------------------------
(* Claim about the two column resolutions of a request, checked under Spec *)

\* C12 (as claimed): in a request for ceremony documents that passed
\* validate_activity_data, every artifact is generated from the column that
\* validate_activity_data resolved and checked for data; and when the request
\* succeeds its response lists at least one ceremony document.
MappingMatchesValidation ==
    (pc = "done" /\ HasBaseColumns /\ FormActivityType(req) = "both"
        /\ ValidatedColumns.kind = "tuple2") =>
        /\ \A key \in Range(ArtifactKeys) :
              ArtifactColumn(key) = ValidatedColumns.columns[key]
        /\ response.status = 200 => \E key \in Range(ArtifactKeys) : Listed(key)

-----------------------------------------------------------------------------
(* Claim about the pages of a tablet list, checked under SpecPaginator *)

\* C13 (as claimed): a page break is emitted only when a row has been placed on
\* the current page, never while the cursor still equals START_LINE; so every
\* page that a page break closes, and the last page of a document with rows,
\* holds at least one row.
EveryPageHoldsARow ==
    /\ [][(\E i \in DOMAIN Appended : Appended[i] = PageBreak) =>
            current_line > START_LINE]_vars
    /\ [](\A i \in DOMAIN doc :
            doc[i] = PageBreak =>
                \E j \in 1..(i - 1) :
                    /\ doc[j].kind = "paragraph"
                    /\ \A k \in (j + 1)..(i - 1) : doc[k] # PageBreak)
    /\ [](row_idx > 0 => doc[Len(doc)].kind = "paragraph")

====
